---- MODULE Spec2Model ----
(***************************************************************************)
(* AsciiDoc cross-reference checker (check_xrefs.py).                      *)
(*                                                                         *)
(* Text is a sequence of one-character strings.  The regular expressions   *)
(* of the program are modelled by what they match on such sequences:       *)
(* leftmost match, greedy runs, scanning resumed at the end of a match.    *)
(***************************************************************************)
EXTENDS Naturals, Sequences, FiniteSets

VARIABLES
    rootExists,       \* os.path.exists(directory)
    content,          \* content[d]: the text of document d
    pc,               \* position of main()
    adoc_files,       \* files found by find_adoc_files
    submitted,        \* number of files already handed to the executor
    unit,             \* unit[d]: state of the future of document d
    result,           \* result[d]: FileAnalysis held by a finished future
    merged,           \* futures already yielded by as_completed
    completed,        \* main's counter of yielded futures
    all_section_ids,  \* id -> set of files that define it (its keys are DOMAIN)
    all_xrefs,        \* merged list of XRefInfo
    file_errors,      \* merged list of error strings
    broken_xrefs,     \* list of XRefInfo whose id is no key of all_section_ids
    reported,         \* broken references in the order they are printed
    summary,          \* the SUMMARY blocks printed (none, or one)
    duplicates,       \* id -> files, for ids defined in more than one file
    exit_status,      \* the status given to sys.exit (none, or one)
    text,             \* input of a pure function under test
    out,              \* its output
    applied           \* whether the function has been applied

vars == <<rootExists, content, pc, adoc_files, submitted, unit, result, merged,
          completed, all_section_ids, all_xrefs, file_errors, broken_xrefs,
          reported, summary, duplicates, exit_status, text, out, applied>>

mainVars == <<rootExists, content, pc, adoc_files, submitted, unit, result,
              merged, completed, all_section_ids, all_xrefs, file_errors,
              broken_xrefs, reported, summary, duplicates, exit_status>>

(***************************************************************************)
(* Bounds.                                                                 *)
(***************************************************************************)
NumDocs == 2          \* documents under the root directory
MaxWorkers == 1       \* worker processes of the pool
MaxNormLen == 5       \* longest heading text given to normalize_id
MaxXrefFrags == 4     \* fragments of a text given to extract_xrefs
MaxHeadFrags == 5     \* fragments of a text given to extract_section_ids

(***************************************************************************)
(* Characters.                                                             *)
(***************************************************************************)
UpperSeq == <<"A","B","C","D","E","F","G","H","I","J","K","L","M",
              "N","O","P","Q","R","S","T","U","V","W","X","Y","Z">>
LowerSeq == <<"a","b","c","d","e","f","g","h","i","j","k","l","m",
              "n","o","p","q","r","s","t","u","v","w","x","y","z">>
Range(s) == {s[i] : i \in DOMAIN s}
Digits == {"0","1","2","3","4","5","6","7","8","9"}
Letters == Range(UpperSeq) \cup Range(LowerSeq)

\* \w
IsWord(c) == c \in Letters \cup Digits \cup {"_"}
\* \s
IsSpace(c) == c \in {" ", "\t", "\n", "\r", "\f"}
\* [a-zA-Z0-9_-]
IsIdChar(c) == c \in Letters \cup Digits \cup {"_", "-"}
\* str.lower() on one character
LowerChar(c) ==
    IF \E i \in DOMAIN UpperSeq : UpperSeq[i] = c
    THEN LowerSeq[CHOOSE i \in DOMAIN UpperSeq : UpperSeq[i] = c]
    ELSE c

(***************************************************************************)
(* Sequence helpers.                                                       *)
(***************************************************************************)
Slice(s, i, j) == IF i > j THEN <<>> ELSE SubSeq(s, i, j)

RECURSIVE Flatten(_)
Flatten(ss) == IF ss = <<>> THEN <<>> ELSE Head(ss) \o Flatten(Tail(ss))

\* s has the literal lit at position i
HasAt(s, i, lit) ==
    /\ i >= 1
    /\ i + Len(lit) - 1 <= Len(s)
    /\ \A k \in 1..Len(lit) : s[i + k - 1] = lit[k]

\* first position >= j whose character does not satisfy In (Len(s)+1 if none):
\* the end of a greedy run that starts at j
RunEnd(s, j, In(_)) ==
    CHOOSE k \in j..(Len(s) + 1) :
        /\ k = Len(s) + 1 \/ ~In(s[k])
        /\ \A m \in j..(k - 1) : In(s[m])

\* str.strip(): whitespace removed at both ends
Strip(s) ==
    IF \A i \in DOMAIN s : IsSpace(s[i]) THEN <<>>
    ELSE LET a == CHOOSE i \in DOMAIN s :
                      ~IsSpace(s[i]) /\ \A m \in 1..(i - 1) : IsSpace(s[m])
             b == CHOOSE i \in DOMAIN s :
                      ~IsSpace(s[i]) /\ \A m \in (i + 1)..Len(s) : IsSpace(s[m])
         IN  SubSeq(s, a, b)

\* str.strip('-')
StripHyphens(s) ==
    IF \A i \in DOMAIN s : s[i] = "-" THEN <<>>
    ELSE LET a == CHOOSE i \in DOMAIN s :
                      s[i] # "-" /\ \A m \in 1..(i - 1) : s[m] = "-"
             b == CHOOSE i \in DOMAIN s :
                      s[i] # "-" /\ \A m \in (i + 1)..Len(s) : s[m] = "-"
         IN  SubSeq(s, a, b)

\* str.split(sep): the pieces of s between occurrences of the character sep
RECURSIVE SplitAt(_, _, _)
SplitAt(s, sep, from) ==
    LET e == RunEnd(s, from, LAMBDA c : c # sep)
    IN  IF e > Len(s) THEN <<Slice(s, from, Len(s))>>
        ELSE <<Slice(s, from, e - 1)>> \o SplitAt(s, sep, e + 1)
Split(s, sep) == SplitAt(s, sep, 1)

(***************************************************************************)
(* re.finditer and re.sub.  ends[i] is the position just after the match   *)
(* that starts at i, or 0 when the pattern does not match at i.  No         *)
(* pattern of the program matches the empty string.                        *)
(***************************************************************************)
RECURSIVE FindFrom(_, _, _)
FindFrom(n, ends, i) ==
    IF i > n THEN <<>>
    ELSE IF ends[i] = 0 THEN FindFrom(n, ends, i + 1)
    ELSE <<i>> \o FindFrom(n, ends, ends[i])
\* starts of the non-overlapping matches, left to right
FindAll(s, ends) == FindFrom(Len(s), ends, 1)

RECURSIVE SubFrom(_, _, _, _)
SubFrom(s, ends, repl, i) ==
    IF i > Len(s) THEN <<>>
    ELSE IF ends[i] = 0 THEN <<s[i]>> \o SubFrom(s, ends, repl, i + 1)
    ELSE repl[i] \o SubFrom(s, ends, repl, ends[i])
\* re.sub: every match replaced by repl[start]
ReSub(s, ends, repl) == SubFrom(s, ends, repl, 1)

(***************************************************************************)
(* normalize_id                                                            *)
(***************************************************************************)
\* text.lower()
Lower(t) == [i \in 1..Len(t) |-> LowerChar(t[i])]

\* re.sub(r'[^\w\s-]', '', text)
StripSpecial(t) == SelectSeq(t, LAMBDA c : IsWord(c) \/ IsSpace(c) \/ c = "-")

\* re.sub(r'\s+', '-', text)
SpacesToHyphen(t) ==
    ReSub(t,
          [i \in 1..Len(t) |-> IF IsSpace(t[i]) THEN RunEnd(t, i, IsSpace) ELSE 0],
          [i \in 1..Len(t) |-> <<"-">>])

\* re.sub(r'-+', '-', text)
CollapseHyphens(t) ==
    ReSub(t,
          [i \in 1..Len(t) |->
              IF t[i] = "-" THEN RunEnd(t, i, LAMBDA c : c = "-") ELSE 0],
          [i \in 1..Len(t) |-> <<"-">>])

\* a hyphen run collapsed before whitespace becomes hyphens
normalize_id_collapse_first(t) ==
    StripHyphens(SpacesToHyphen(CollapseHyphens(StripSpecial(Lower(t)))))

normalize_id(t) ==
    StripHyphens(CollapseHyphens(SpacesToHyphen(StripSpecial(Lower(t)))))

(***************************************************************************)
(* Specification of normalize_id applied to one heading text.              *)
(***************************************************************************)
NormAlphabet == {"A", "a", "_", "-", " ", "!"}

\* the sequences of at most n elements of A
RECURSIVE StringsUpTo(_, _)
StringsUpTo(A, n) ==
    IF n = 0 THEN {<<>>}
    ELSE LET S == StringsUpTo(A, n - 1)
         IN  S \cup {Append(s, c) : s \in {x \in S : Len(x) = n - 1}, c \in A}

\* the texts made of at most n fragments of F
Texts(F, n) == {Flatten(fs) : fs \in StringsUpTo(F, n)}

MainIdle ==
    /\ rootExists = FALSE
    /\ content = <<>>
    /\ pc = "idle"
    /\ adoc_files = {}
    /\ submitted = 0
    /\ unit = <<>>
    /\ result = <<>>
    /\ merged = {}
    /\ completed = 0
    /\ all_section_ids = <<>>
    /\ all_xrefs = <<>>
    /\ file_errors = <<>>
    /\ broken_xrefs = <<>>
    /\ reported = <<>>
    /\ summary = <<>>
    /\ duplicates = <<>>
    /\ exit_status = <<>>

NormInit ==
    /\ MainIdle
    /\ text \in StringsUpTo(NormAlphabet, MaxNormLen)
    /\ out = <<>>
    /\ applied = FALSE

Normalize ==
    /\ ~applied
    /\ out' = normalize_id(text)
    /\ applied' = TRUE
    /\ UNCHANGED <<mainVars, text>>

NormNext == Normalize
SpecNorm == NormInit /\ [][NormNext]_vars

\* C8: normalize_id is idempotent: normalizing an output of the normalizer
\* gives that output back.
NormalizeIdempotent == applied => normalize_id(out) = out

\* the normalizer has changed its input into a non-empty identifier
NormalizeWitness ==
    /\ applied
    /\ out # text
    /\ out # <<>>
    /\ \E i \in DOMAIN text : text[i] = " "
    /\ \E i \in DOMAIN text : text[i] = "!"

(***************************************************************************)
(* extract_xrefs                                                           *)
(***************************************************************************)
XREF == <<"x", "r", "e", "f", ":">>
OPEN == <<"<", "<">>
CLOSE == <<">", ">">>

\* xref_pattern = r'xref:([a-zA-Z0-9_-]+)(?:\[[^\]]*\])?' at position i of l
XrefIdEnd(l, i) == RunEnd(l, i + Len(XREF), IsIdChar)
XrefEnd(l, i) ==
    IF HasAt(l, i, XREF) /\ XrefIdEnd(l, i) > i + Len(XREF)
    THEN LET j == XrefIdEnd(l, i)
             k == RunEnd(l, j + 1, LAMBDA c : c # "]")
         IN  IF HasAt(l, j, <<"[">>) /\ k <= Len(l) THEN k + 1 ELSE j
    ELSE 0
XrefId(l, i) == Slice(l, i + Len(XREF), XrefIdEnd(l, i) - 1)

\* angle_bracket_pattern = r'<<([a-zA-Z0-9_-]+)(?:,[^>]*)?>>' at position i of l
AngleIdEnd(l, i) == RunEnd(l, i + Len(OPEN), IsIdChar)
AngleEnd(l, i) ==
    IF HasAt(l, i, OPEN) /\ AngleIdEnd(l, i) > i + Len(OPEN)
    THEN LET j == AngleIdEnd(l, i)
             k == RunEnd(l, j + 1, LAMBDA c : c # ">")
         IN  IF HasAt(l, j, <<",">>)
             THEN IF HasAt(l, k, CLOSE) THEN k + Len(CLOSE) ELSE 0
             ELSE IF HasAt(l, j, CLOSE) THEN j + Len(CLOSE) ELSE 0
    ELSE 0
AngleId(l, i) == Slice(l, i + Len(OPEN), AngleIdEnd(l, i) - 1)

\* xref_pattern.finditer(line), angle_bracket_pattern.finditer(line): starts
XrefStarts(l) == FindAll(l, [i \in 1..Len(l) |-> XrefEnd(l, i)])
AngleStarts(l) == FindAll(l, [i \in 1..Len(l) |-> AngleEnd(l, i)])

XRefInfo(path, n, id, type) ==
    [file_path |-> path, line_number |-> n, xref_id |-> id, xref_type |-> type]

XrefRecords(l, n, path) ==
    LET st == XrefStarts(l)
    IN  [k \in 1..Len(st) |-> XRefInfo(path, n, XrefId(l, st[k]), "xref")]
AngleRecords(l, n, path) ==
    LET st == AngleStarts(l)
    IN  [k \in 1..Len(st) |-> XRefInfo(path, n, AngleId(l, st[k]), "angle_bracket")]

\* the records of one line with the two loops of the body exchanged
LineXrefsAngleFirst(l, n, path) ==
    AngleRecords(l, n, path) \o XrefRecords(l, n, path)

\* body of the loop over the lines: the xref: loop, then the <<>> loop
LineXrefs(l, n, path) ==
    XrefRecords(l, n, path) \o AngleRecords(l, n, path)

extract_xrefs(c, path) ==
    LET lines == Split(c, "\n")
    IN  Flatten([n \in 1..Len(lines) |-> LineXrefs(lines[n], n, path)])

(***************************************************************************)
(* Specification of extract_xrefs applied to one text.                     *)
(***************************************************************************)
XrefFrags == {XREF, XREF \o <<"a">>, OPEN \o <<"a">>, CLOSE,
              <<"a">>, <<"[">>, <<"]">>, <<",">>, <<"\n">>}

XrefInit ==
    /\ MainIdle
    /\ text \in Texts(XrefFrags, MaxXrefFrags)
    /\ out = <<>>
    /\ applied = FALSE

ExtractXrefs ==
    /\ ~applied
    /\ out' = extract_xrefs(text, 1)
    /\ applied' = TRUE
    /\ UNCHANGED <<mainVars, text>>

XrefNext == ExtractXrefs
SpecXrefs == XrefInit /\ [][XrefNext]_vars

\* the references of line l in left-to-right order of where they start
LeftToRight(l, n, path) ==
    Flatten([i \in 1..Len(l) |->
        IF XrefEnd(l, i) # 0 /\ \E k \in DOMAIN XrefStarts(l) : XrefStarts(l)[k] = i
        THEN <<XRefInfo(path, n, XrefId(l, i), "xref")>>
        ELSE IF AngleEnd(l, i) # 0
                /\ \E k \in DOMAIN AngleStarts(l) : AngleStarts(l)[k] = i
        THEN <<XRefInfo(path, n, AngleId(l, i), "angle_bracket")>>
        ELSE <<>>])

\* C3 (as stated): the records are in line order and, within a line, in
\* left-to-right order of occurrence whatever the syntax kind.
XrefsLeftToRight ==
    applied =>
        LET lines == Split(text, "\n")
        IN  out = Flatten([n \in 1..Len(lines) |-> LeftToRight(lines[n], n, 1)])

IdsOf(recs) == [k \in 1..Len(recs) |-> recs[k].xref_id]

\* C3 (amended): the records are in line order; within a line every xref:
\* record precedes every <<>> record, and the records of one kind are in
\* left-to-right order of occurrence, one per occurrence.
XrefsKindThenLeftToRight ==
    applied =>
        LET lines == Split(text, "\n")
        IN  /\ \A k \in DOMAIN out : out[k].line_number \in 1..Len(lines)
            /\ \A i, j \in DOMAIN out :
                  i < j =>
                    /\ out[i].line_number <= out[j].line_number
                    /\ out[i].line_number = out[j].line_number
                         => ~(out[i].xref_type = "angle_bracket"
                              /\ out[j].xref_type = "xref")
            /\ \A n \in 1..Len(lines) :
                  LET xs == XrefStarts(lines[n])
                      as == AngleStarts(lines[n])
                  IN  /\ IdsOf(SelectSeq(out, LAMBDA r : r.line_number = n
                                              /\ r.xref_type = "xref"))
                           = [k \in 1..Len(xs) |-> XrefId(lines[n], xs[k])]
                      /\ IdsOf(SelectSeq(out, LAMBDA r : r.line_number = n
                                              /\ r.xref_type = "angle_bracket"))
                           = [k \in 1..Len(as) |-> AngleId(lines[n], as[k])]

\* a line holds an angle-bracket reference followed by an xref: one
XrefsWitness ==
    /\ applied
    /\ Len(out) = 2
    /\ out[1].line_number = 1
    /\ out[2].line_number = 1
    /\ LET l == Split(text, "\n")[1]
       IN  AngleStarts(l) # <<>> /\ XrefStarts(l) # <<>>
           /\ AngleStarts(l)[1] < XrefStarts(l)[1]

(***************************************************************************)
(* extract_section_ids                                                     *)
(***************************************************************************)
\* r'\[\[([^\]]+)\]\]' at position i of s
BracketRunEnd(s, i) == RunEnd(s, i + 2, LAMBDA c : c # "]")
BracketEnd(s, i) ==
    IF /\ HasAt(s, i, <<"[", "[">>)
       /\ BracketRunEnd(s, i) > i + 2
       /\ HasAt(s, BracketRunEnd(s, i), <<"]", "]">>)
    THEN BracketRunEnd(s, i) + 2
    ELSE 0

\* r'\[#([^\]]+)\]' at position i of s
HashEnd(s, i) ==
    IF /\ HasAt(s, i, <<"[", "#">>)
       /\ BracketRunEnd(s, i) > i + 2
       /\ HasAt(s, BracketRunEnd(s, i), <<"]">>)
    THEN BracketRunEnd(s, i) + 1
    ELSE 0

\* group(1) of either pattern
ExplicitGroup(s, i) == Slice(s, i + 2, BracketRunEnd(s, i) - 1)

\* id_text.split(',')[0].strip()
BeforeComma(g) == Strip(Split(g, ",")[1])

\* ids of the [[id]] and [[id,title]] forms
bracket_ids(s) ==
    LET st == FindAll(s, [i \in 1..Len(s) |-> BracketEnd(s, i)])
    IN  {BeforeComma(ExplicitGroup(s, st[k])) : k \in DOMAIN st}

\* ids of the [#id] and [#id,...] forms
hash_ids(s) ==
    LET st == FindAll(s, [i \in 1..Len(s) |-> HashEnd(s, i)])
    IN  {BeforeComma(ExplicitGroup(s, st[k])) : k \in DOMAIN st}

\* section_header_pattern = r'^(=+)\s+(.+)$' with re.MULTILINE, at position i
AtLineStart(s, i) == i = 1 \/ (i > 1 /\ s[i - 1] = "\n")
MarkerEnd(s, i) == RunEnd(s, i, LAMBDA c : c = "=")
\* where (.+) starts: \s+ is greedy and gives characters back until '.' matches
TitleStart(s, i) ==
    LET e == MarkerEnd(s, i)
        w == RunEnd(s, e, IsSpace)
        P == {p \in (e + 1)..w : p <= Len(s) /\ s[p] # "\n"}
    IN  IF P = {} THEN 0 ELSE CHOOSE p \in P : \A q \in P : q <= p
HeaderEnd(s, i) ==
    IF i <= Len(s) /\ AtLineStart(s, i) /\ s[i] = "=" /\ TitleStart(s, i) # 0
    THEN RunEnd(s, TitleStart(s, i), LAMBDA c : c # "\n")
    ELSE 0
\* match.group(2)
HeaderTitle(s, i) == Slice(s, TitleStart(s, i), HeaderEnd(s, i) - 1)

\* re.sub(r'\[\[[^\]]+\]\]', '', t) and re.sub(r'\[#[^\]]+\]', '', t)
NoRepl(t) == [i \in 1..Len(t) |-> <<>>]
RemoveBracketIds(t) == ReSub(t, [i \in 1..Len(t) |-> BracketEnd(t, i)], NoRepl(t))
RemoveHashIds(t) == ReSub(t, [i \in 1..Len(t) |-> HashEnd(t, i)], NoRepl(t))

\* r'\*\*?([^*]+)\*\*?' and r'__?([^_]+)__?': delimiter d, once or twice
WrapOpen(t, i, d) == IF HasAt(t, i + 1, <<d>>) THEN i + 2 ELSE i + 1
WrapRunEnd(t, i, d) == RunEnd(t, WrapOpen(t, i, d), LAMBDA c : c # d)
WrapEnd(t, i, d) ==
    IF /\ HasAt(t, i, <<d>>)
       /\ WrapRunEnd(t, i, d) > WrapOpen(t, i, d)
       /\ HasAt(t, WrapRunEnd(t, i, d), <<d>>)
    THEN IF HasAt(t, WrapRunEnd(t, i, d) + 1, <<d>>)
         THEN WrapRunEnd(t, i, d) + 2
         ELSE WrapRunEnd(t, i, d) + 1
    ELSE 0
WrapInner(t, i, d) == Slice(t, WrapOpen(t, i, d), WrapRunEnd(t, i, d) - 1)
Unwrap(t, d) ==
    ReSub(t, [i \in 1..Len(t) |-> WrapEnd(t, i, d)],
             [i \in 1..Len(t) |-> WrapInner(t, i, d)])

\* The backquote character cannot be written in a string of this language:
\* it is the one character that is written as a two-letter symbol.
BACKQUOTE == "bq"
\* re.sub of the monospace pattern (backquote, one or more characters that
\* are no backquote, backquote) by r'\1'
TickRunEnd(t, i) == RunEnd(t, i + 1, LAMBDA c : c # BACKQUOTE)
TickEnd(t, i) ==
    IF /\ HasAt(t, i, <<BACKQUOTE>>)
       /\ TickRunEnd(t, i) > i + 1
       /\ HasAt(t, TickRunEnd(t, i), <<BACKQUOTE>>)
    THEN TickRunEnd(t, i) + 1
    ELSE 0
UnwrapTicks(t) ==
    ReSub(t, [i \in 1..Len(t) |-> TickEnd(t, i)],
             [i \in 1..Len(t) |-> Slice(t, i + 1, TickRunEnd(t, i) - 1)])

\* re.sub(r'https?://[^\s\[]+', '', t)
HTTP == <<"h", "t", "t", "p">>
SCHEME == <<":", "/", "/">>
UrlBody(t, i) ==
    IF HasAt(t, i + Len(HTTP), <<"s">>) /\ HasAt(t, i + Len(HTTP) + 1, SCHEME)
    THEN i + Len(HTTP) + 1 + Len(SCHEME)
    ELSE IF HasAt(t, i + Len(HTTP), SCHEME) THEN i + Len(HTTP) + Len(SCHEME)
    ELSE 0
UrlEnd(t, i) ==
    IF HasAt(t, i, HTTP) /\ UrlBody(t, i) # 0
       /\ RunEnd(t, UrlBody(t, i), LAMBDA c : ~IsSpace(c) /\ c # "[") > UrlBody(t, i)
    THEN RunEnd(t, UrlBody(t, i), LAMBDA c : ~IsSpace(c) /\ c # "[")
    ELSE 0
RemoveUrls(t) == ReSub(t, [i \in 1..Len(t) |-> UrlEnd(t, i)], NoRepl(t))

\* re.sub(r'link:[^\[]+\[[^\]]*\]', '', t)
LINK == <<"l", "i", "n", "k", ":">>
LinkTargetEnd(t, i) == RunEnd(t, i + Len(LINK), LAMBDA c : c # "[")
LinkLabelEnd(t, i) == RunEnd(t, LinkTargetEnd(t, i) + 1, LAMBDA c : c # "]")
LinkEnd(t, i) ==
    IF /\ HasAt(t, i, LINK)
       /\ LinkTargetEnd(t, i) > i + Len(LINK)
       /\ LinkTargetEnd(t, i) <= Len(t)
       /\ LinkLabelEnd(t, i) <= Len(t)
    THEN LinkLabelEnd(t, i) + 1
    ELSE 0
RemoveLinks(t) == ReSub(t, [i \in 1..Len(t) |-> LinkEnd(t, i)], NoRepl(t))

\* the header text as it is given to normalize_id
CleanTitle(t) ==
    RemoveLinks(RemoveUrls(UnwrapTicks(Unwrap(Unwrap(
        RemoveHashIds(RemoveBracketIds(Strip(t))), "*"), "_"))))

\* auto-generated ids of the section headers
header_ids(s) ==
    LET st == FindAll(s, [i \in 1..Len(s) |-> HeaderEnd(s, i)])
    IN  {normalize_id(CleanTitle(HeaderTitle(s, st[k]))) : k \in DOMAIN st}
          \ {<<>>}

extract_section_ids(s) == bracket_ids(s) \cup hash_ids(s) \cup header_ids(s)

(***************************************************************************)
(* Specification of extract_section_ids applied to one text.               *)
(***************************************************************************)
HeadFrags == {<<"=">>, <<" ">>, <<"\n">>, <<"a">>, <<"B">>, <<"_">>,
              <<"[", "[">>, <<"]", "]">>}

HeadInit ==
    /\ MainIdle
    /\ text \in Texts(HeadFrags, MaxHeadFrags)
    /\ out = {}
    /\ applied = FALSE

ExtractSectionIds ==
    /\ ~applied
    /\ out' = extract_section_ids(text)
    /\ applied' = TRUE
    /\ UNCHANGED <<mainVars, text>>

HeadNext == ExtractSectionIds
SpecHead == HeadInit /\ [][HeadNext]_vars

\* a heading line: one or more '=' at its start, then at least one space;
\* its title is the rest of that line
IsHeadingLine(l) ==
    /\ l # <<>> /\ l[1] = "="
    /\ RunEnd(l, MarkerEnd(l, 1), IsSpace) > MarkerEnd(l, 1)
LineTitle(l) == Slice(l, RunEnd(l, MarkerEnd(l, 1), IsSpace), Len(l))
HeadingLineIds(s) ==
    LET lines == Split(s, "\n")
    IN  {normalize_id(CleanTitle(LineTitle(lines[n]))) :
            n \in {m \in DOMAIN lines : IsHeadingLine(lines[m])}} \ {<<>>}

\* C10: the heading-derived anchors are exactly the non-empty normalizations
\* of the cleaned titles of the lines that begin with '=' characters followed
\* by at least one space; no text of another line becomes a heading anchor.
HeadingAnchorsFromHeadingLines ==
    applied => out = bracket_ids(text) \cup hash_ids(text) \cup HeadingLineIds(text)

(***************************************************************************)
(* main(): the documents, the executor and the aggregation.                *)
(***************************************************************************)
Docs == 1..NumDocs

\* "== Setup\n<<missing-id>>"
DocSetup ==
    <<"=", "=", " ", "S", "e", "t", "u", "p", "\n",
      "<", "<", "m", "i", "s", "s", "i", "n", "g", "-", "i", "d", ">", ">">>
\* "xref:setup[]"
DocXref ==
    <<"x", "r", "e", "f", ":", "s", "e", "t", "u", "p", "[", "]">>
\* "[[intro]]\n== Intro\n[#setup]"
DocIntro ==
    <<"[", "[", "i", "n", "t", "r", "o", "]", "]", "\n",
      "=", "=", " ", "I", "n", "t", "r", "o", "\n",
      "[", "#", "s", "e", "t", "u", "p", "]">>
\* "See <<intro>> and xref:setup[Setup Guide]."
DocSee ==
    <<"S", "e", "e", " ", "<", "<", "i", "n", "t", "r", "o", ">", ">", " ",
      "a", "n", "d", " ",
      "x", "r", "e", "f", ":", "s", "e", "t", "u", "p",
      "[", "S", "e", "t", "u", "p", " ", "G", "u", "i", "d", "e", "]", ".">>

\* the texts a document may hold
Corpus == {DocSetup, DocXref, DocIntro, DocSee}

FileAnalysis(path, ids, xrefs, errors) ==
    [file_path |-> path, section_ids |-> ids, xrefs |-> xrefs, errors |-> errors]

\* the result slot of a future that has not finished
NoResult == FileAnalysis(0, {}, <<>>, <<>>)

\* extract_section_ids and extract_xrefs of every text a document may hold
\* (computed once: the two functions are pure)
SectionIdsOf == [t \in Corpus |-> extract_section_ids(t)]
XrefsOf == [t \in Corpus |-> [d \in Docs |-> extract_xrefs(t, d)]]

\* the except branch of analyze_file with the anchors of the text kept
ReadFailureKeepsIds(d) ==
    FileAnalysis(d, SectionIdsOf[content[d]], <<>>, <<<<"Error reading", d>>>>)

\* analyze_file, the except branch: open() or read() raised
ReadFailure(d) == FileAnalysis(d, {}, <<>>, <<<<"Error reading", d>>>>)

\* analyze_file, the try branch
ReadSuccess(d) ==
    FileAnalysis(d, SectionIdsOf[content[d]], XrefsOf[content[d]][d], <<>>)

\* a future is yielded as soon as it is running
IsDoneEarly(d) == unit[d] \in {"running", "done", "raised"}

\* a future is yielded only when it holds a result
IsDoneResultOnly(d) == unit[d] = "done"

\* as_completed yields a future once it holds a result or an exception
IsDone(d) == unit[d] \in {"done", "raised"}

\* the loop over as_completed left after the first future
AllCollectedFirst == merged # {}

\* the loop over as_completed ends when every future has been yielded
AllCollected == merged = adoc_files

\* all_section_ids[section_id].add(file_path) for every id of ids
MergeIds(index, ids, path) ==
    [k \in DOMAIN index \cup ids |->
        (IF k \in DOMAIN index THEN index[k] ELSE {})
          \cup (IF k \in ids THEN {path} ELSE {})]

\* a reference is looked up among the ids defined in its own file only
IsBrokenSameFile(x) ==
    x.xref_id \notin {k \in DOMAIN all_section_ids : x.file_path \in all_section_ids[k]}

\* xref.xref_id not in all_section_ids
IsBroken(x) == x.xref_id \notin DOMAIN all_section_ids

\* every defined id is taken for a duplicate
IsDuplicateAny(files) == Cardinality(files) >= 1

\* len(files) > 1
IsDuplicate(files) == Cardinality(files) > 1

\* the status is 1 when a document could not be processed
ExitCodeErrors == IF broken_xrefs # <<>> \/ file_errors # <<>> THEN 1 ELSE 0

\* 1 if broken_xrefs else 0
ExitCode == IF broken_xrefs # <<>> THEN 1 ELSE 0

\* sorted(broken_by_file.keys()), and for each file the stable
\* sorted(..., key=line_number) of its broken references
SortedForReport(xs) ==
    LET MaxLine == IF xs = <<>> THEN 0
                   ELSE CHOOSE n \in {xs[i].line_number : i \in DOMAIN xs} :
                            \A i \in DOMAIN xs : xs[i].line_number <= n
    IN  Flatten([f \in 1..NumDocs |->
            Flatten([n \in 1..MaxLine |->
                SelectSeq(xs, LAMBDA x : x.file_path = f /\ x.line_number = n)])])

Init ==
    /\ rootExists \in BOOLEAN
    /\ content \in [Docs -> Corpus]
    /\ pc = "preflight"
    /\ adoc_files = {}
    /\ submitted = 0
    /\ unit = [d \in Docs |-> "unsubmitted"]
    /\ result = [d \in Docs |-> NoResult]
    /\ merged = {}
    /\ completed = 0
    /\ all_section_ids = <<>>
    /\ all_xrefs = <<>>
    /\ file_errors = <<>>
    /\ broken_xrefs = <<>>
    /\ reported = <<>>
    /\ summary = <<>>
    /\ duplicates = <<>>
    /\ exit_status = <<>>
    /\ text = <<>>
    /\ out = <<>>
    /\ applied = FALSE

pureVars == <<text, out, applied>>

\* if not os.path.exists(directory): sys.exit(1)
PreflightFails ==
    /\ pc = "preflight"
    /\ ~rootExists
    /\ exit_status' = <<1>>
    /\ pc' = "exited"
    /\ UNCHANGED <<rootExists, content, adoc_files, submitted, unit, result,
                   merged, completed, all_section_ids, all_xrefs, file_errors,
                   broken_xrefs, reported, summary, duplicates, pureVars>>

\* the directory exists: find_adoc_files, and the empty collections
Discover ==
    /\ pc = "preflight"
    /\ rootExists
    /\ adoc_files' = Docs
    /\ all_section_ids' = <<>>
    /\ all_xrefs' = <<>>
    /\ file_errors' = <<>>
    /\ pc' = "submit"
    /\ UNCHANGED <<rootExists, content, submitted, unit, result, merged,
                   completed, broken_xrefs, reported, summary, duplicates,
                   exit_status, pureVars>>

\* executor.submit(analyze_file, file_path), one file after the other
Submit ==
    /\ pc = "submit"
    /\ submitted < Cardinality(adoc_files)
    /\ submitted' = submitted + 1
    /\ unit' = [unit EXCEPT ![submitted + 1] = "pending"]
    /\ pc' = IF submitted + 1 = Cardinality(adoc_files) THEN "collect" ELSE "submit"
    /\ UNCHANGED <<rootExists, content, adoc_files, result, merged, completed,
                   all_section_ids, all_xrefs, file_errors, broken_xrefs,
                   reported, summary, duplicates, exit_status, pureVars>>

workerVars == <<rootExists, content, pc, adoc_files, submitted, merged,
                completed, all_section_ids, all_xrefs, file_errors,
                broken_xrefs, reported, summary, duplicates, exit_status,
                pureVars>>

\* a free worker process takes a pending call
WorkerStart(d) ==
    /\ unit[d] = "pending"
    /\ Cardinality({e \in Docs : unit[e] = "running"}) < MaxWorkers
    /\ unit' = [unit EXCEPT ![d] = "running"]
    /\ UNCHANGED <<result, workerVars>>

\* analyze_file returns the analysis of the text it has read
AnalyzeOk(d) ==
    /\ unit[d] = "running"
    /\ unit' = [unit EXCEPT ![d] = "done"]
    /\ result' = [result EXCEPT ![d] = ReadSuccess(d)]
    /\ UNCHANGED workerVars

\* analyze_file catches the failure of open() or read()
AnalyzeReadFails(d) ==
    /\ unit[d] = "running"
    /\ unit' = [unit EXCEPT ![d] = "done"]
    /\ result' = [result EXCEPT ![d] = ReadFailure(d)]
    /\ UNCHANGED workerVars

\* the call ends with an exception that the future holds (a call that is
\* still pending ends so when the pool of processes breaks)
UnitRaises(d) ==
    /\ unit[d] \in {"pending", "running"}
    /\ unit' = [unit EXCEPT ![d] = "raised"]
    /\ UNCHANGED <<result, workerVars>>

\* one turn of the loop over as_completed: future.result() merged, or the
\* exception recorded
Collect(d) ==
    /\ pc = "collect"
    /\ d \in adoc_files \ merged
    /\ IsDone(d)
    /\ completed' = completed + 1
    /\ merged' = merged \cup {d}
    /\ IF unit[d] = "raised"
       THEN /\ file_errors' = Append(file_errors, <<"Error processing", d>>)
            /\ UNCHANGED <<all_section_ids, all_xrefs>>
       ELSE /\ all_section_ids' =
                  MergeIds(all_section_ids, result[d].section_ids, result[d].file_path)
            /\ all_xrefs' = all_xrefs \o result[d].xrefs
            /\ file_errors' = file_errors \o result[d].errors
    /\ UNCHANGED <<rootExists, content, pc, adoc_files, submitted, unit, result,
                   broken_xrefs, reported, summary, duplicates, exit_status,
                   pureVars>>

\* the loop and the with block are left
LeaveExecutor ==
    /\ pc = "collect"
    /\ AllCollected
    /\ pc' = "check"
    /\ UNCHANGED <<rootExists, content, adoc_files, submitted, unit, result,
                   merged, completed, all_section_ids, all_xrefs, file_errors,
                   broken_xrefs, reported, summary, duplicates, exit_status,
                   pureVars>>

\* broken_xrefs: the references whose id is no key of all_section_ids
CheckBroken ==
    /\ pc = "check"
    /\ broken_xrefs' = SelectSeq(all_xrefs, IsBroken)
    /\ pc' = "report"
    /\ UNCHANGED <<rootExists, content, adoc_files, submitted, unit, result,
                   merged, completed, all_section_ids, all_xrefs, file_errors,
                   reported, summary, duplicates, exit_status, pureVars>>

\* RESULTS: the broken references printed by file, then by line
ReportResults ==
    /\ pc = "report"
    /\ reported' = SortedForReport(broken_xrefs)
    /\ pc' = "summary"
    /\ UNCHANGED <<rootExists, content, adoc_files, submitted, unit, result,
                   merged, completed, all_section_ids, all_xrefs, file_errors,
                   broken_xrefs, summary, duplicates, exit_status, pureVars>>

\* SUMMARY: the four counts
Summary ==
    /\ pc = "summary"
    /\ summary' = <<[files |-> Cardinality(adoc_files),
                     ids |-> Cardinality(DOMAIN all_section_ids),
                     xrefs |-> Len(all_xrefs),
                     broken |-> Len(broken_xrefs)]>>
    /\ pc' = "duplicates"
    /\ UNCHANGED <<rootExists, content, adoc_files, submitted, unit, result,
                   merged, completed, all_section_ids, all_xrefs, file_errors,
                   broken_xrefs, reported, duplicates, exit_status, pureVars>>

\* duplicates: the ids defined in more than one file, with their files
CheckDuplicates ==
    /\ pc = "duplicates"
    /\ duplicates' = [k \in {id \in DOMAIN all_section_ids :
                                 IsDuplicate(all_section_ids[id])}
                        |-> all_section_ids[k]]
    /\ pc' = "exit"
    /\ UNCHANGED <<rootExists, content, adoc_files, submitted, unit, result,
                   merged, completed, all_section_ids, all_xrefs, file_errors,
                   broken_xrefs, reported, summary, exit_status, pureVars>>

\* sys.exit(1 if broken_xrefs else 0)
Exit ==
    /\ pc = "exit"
    /\ exit_status' = <<ExitCode>>
    /\ pc' = "exited"
    /\ UNCHANGED <<rootExists, content, adoc_files, submitted, unit, result,
                   merged, completed, all_section_ids, all_xrefs, file_errors,
                   broken_xrefs, reported, summary, duplicates, pureVars>>

Next ==
    \/ PreflightFails
    \/ Discover
    \/ Submit
    \/ \E d \in Docs : WorkerStart(d)
    \/ \E d \in Docs : AnalyzeOk(d)
    \/ \E d \in Docs : AnalyzeReadFails(d)
    \/ \E d \in Docs : UnitRaises(d)
    \/ \E d \in Docs : Collect(d)
    \/ LeaveExecutor
    \/ CheckBroken
    \/ ReportResults
    \/ Summary
    \/ CheckDuplicates
    \/ Exit

Spec == Init /\ [][Next]_vars

\* every process that can take a step eventually takes one
FairSpec == Spec /\ WF_vars(Next)

(***************************************************************************)
(* What the documents define and reference, from their texts.              *)
(***************************************************************************)
Succeeded(d) == unit[d] = "done" /\ result[d].errors = <<>>
Failed(d) == unit[d] = "raised" \/ (unit[d] = "done" /\ result[d].errors # <<>>)
Good == {d \in Docs : Succeeded(d)}
AnchorsOf(d) == SectionIdsOf[content[d]]
RefsOf(d) == XrefsOf[content[d]][d]
Defined == UNION {AnchorsOf(d) : d \in Good}
DefinedBy(id) == {d \in Good : id \in AnchorsOf(d)}
Count(s, r) == Cardinality({i \in DOMAIN s : s[i] = r})
Finished == pc = "exited" /\ rootExists
AfterBarrier == pc \in {"check", "report", "summary", "duplicates", "exit"} \/ Finished
AfterResolver == pc \in {"report", "summary", "duplicates", "exit"} \/ Finished
AfterReport == pc \in {"summary", "duplicates", "exit"} \/ Finished
AfterDuplicates == pc = "exit" \/ Finished

\* C1: every reference occurrence of a successfully analysed document is
\* reported broken iff its target is no key of the merged index, whose keys
\* are the identifiers some successfully analysed document defines, whatever
\* the order in which the units completed; nothing else is reported.
BrokenIffNotInIndex ==
    /\ AfterResolver =>
        /\ DOMAIN all_section_ids = Defined
        /\ \A k \in DOMAIN all_xrefs :
              Count(broken_xrefs, all_xrefs[k]) =
                  IF all_xrefs[k].xref_id \in DOMAIN all_section_ids THEN 0
                  ELSE Count(all_xrefs, all_xrefs[k])
        /\ \A d \in Good : \A k \in DOMAIN RefsOf(d) :
              Count(broken_xrefs, RefsOf(d)[k]) =
                  IF RefsOf(d)[k].xref_id \in Defined THEN 0
                  ELSE Count(RefsOf(d), RefsOf(d)[k])
        /\ \A k \in DOMAIN broken_xrefs :
              /\ broken_xrefs[k].file_path \in Good
              /\ Count(RefsOf(broken_xrefs[k].file_path), broken_xrefs[k]) > 0
    /\ AfterReport =>
        /\ Len(reported) = Len(broken_xrefs)
        /\ \A k \in DOMAIN broken_xrefs :
              Count(reported, broken_xrefs[k]) = Count(broken_xrefs, broken_xrefs[k])

\* document 1 defines setup and refers to missing-id, document 2 refers to
\* setup: one broken reference, that of document 1, and status 1
CrossDocumentWitness ==
    /\ Finished
    /\ content = <<DocSetup, DocXref>>
    /\ Good = Docs
    /\ Len(RefsOf(2)) = 1
    /\ RefsOf(2)[1].xref_id \in AnchorsOf(1) \ AnchorsOf(2)
    /\ Count(reported, RefsOf(2)[1]) = 0
    /\ Len(reported) = 1
    /\ reported[1].file_path = 1
    /\ exit_status = <<1>>

\* C2: an identifier is in the duplicate report iff at least two distinct
\* documents define it, and the report lists every defining document.
DuplicatesIffTwoDocuments ==
    AfterDuplicates =>
        /\ DOMAIN duplicates = {id \in Defined : Cardinality(DefinedBy(id)) >= 2}
        /\ \A id \in DOMAIN duplicates : duplicates[id] = DefinedBy(id)

\* one identifier is defined by two documents and reported, another is
\* defined twice in one document (explicit anchor and heading) and is not
DuplicateWitness ==
    /\ Finished
    /\ \E id \in DOMAIN duplicates : Cardinality(duplicates[id]) = 2
    /\ \E d \in Good :
          \E id \in bracket_ids(content[d]) \cap header_ids(content[d]) :
              id \notin DOMAIN duplicates

\* C4: a document whose read fails or whose unit raises leaves an error
\* string and nothing in the index or the reference list; every other
\* document contributes exactly its own anchors and references, and the run
\* goes on to the summary.
FailureIsolated ==
    /\ \A d \in Docs :
          /\ (d \in merged /\ Succeeded(d)) =>
                /\ {id \in DOMAIN all_section_ids : d \in all_section_ids[id]}
                     = AnchorsOf(d)
                /\ SelectSeq(all_xrefs, LAMBDA x : x.file_path = d) = RefsOf(d)
          /\ (d \notin merged \/ Failed(d)) =>
                /\ \A id \in DOMAIN all_section_ids : d \notin all_section_ids[id]
                /\ \A k \in DOMAIN all_xrefs : all_xrefs[k].file_path # d
          /\ (d \in merged /\ Failed(d)) =>
                Count(file_errors, <<"Error reading", d>>)
                  + Count(file_errors, <<"Error processing", d>>) = 1
          /\ (d \in merged /\ Succeeded(d)) =>
                Count(file_errors, <<"Error reading", d>>)
                  + Count(file_errors, <<"Error processing", d>>) = 0
    /\ Finished => merged = Docs /\ summary # <<>>

\* a document with anchors could not be read, another one was analysed
FailureWitness ==
    /\ Finished
    /\ \E d, e \in Docs :
          /\ unit[d] = "done" /\ result[d].errors # <<>> /\ AnchorsOf(d) # {}
          /\ Succeeded(e) /\ AnchorsOf(e) # {} /\ RefsOf(e) # <<>>
          /\ \A k \in DOMAIN all_xrefs : all_xrefs[k].file_path = e

\* C5: the exit status is 0 exactly when the root directory exists and no
\* broken reference was found, and 1 otherwise; errors and duplicates have
\* no part in it.
ExitStatusRule ==
    /\ pc # "exited" => exit_status = <<>>
    /\ pc = "exited" =>
          exit_status = <<IF rootExists /\ broken_xrefs = <<>> /\ reported = <<>>
                          THEN 0 ELSE 1>>

\* status 0 although a document could not be processed
ExitZeroWithErrorsWitness ==
    /\ Finished
    /\ exit_status = <<0>>
    /\ file_errors # <<>>

\* C6: when the root directory exists the run reaches the summary and exits.
Terminates == rootExists ~> (pc = "exited" /\ summary # <<>>)

\* the run has exited after one unit raised and another could not read
TerminatesWitness ==
    /\ Finished
    /\ summary # <<>>
    /\ \E d, e \in Docs :
          unit[d] = "raised" /\ unit[e] = "done" /\ result[e].errors # <<>>

\* C7: the checks start only after every unit has finished or failed and
\* has been merged: the index they read lacks no successful result.
ChecksAfterBarrier ==
    AfterBarrier =>
        /\ \A d \in Docs : unit[d] \in {"done", "raised"} /\ d \in merged
        /\ DOMAIN all_section_ids = Defined
        /\ \A id \in Defined : all_section_ids[id] = DefinedBy(id)

\* the resolver is about to run on an index that two documents have filled
BarrierWitness ==
    /\ pc = "check"
    /\ Good = Docs
    /\ \E id \in DOMAIN all_section_ids : all_section_ids[id] = Docs

\* C9 (as stated): nothing is added to the index or to the merged list
\* while a work unit is still running or waiting.
NoMergeBeforeAllFinished ==
    [][(all_section_ids' # all_section_ids \/ all_xrefs' # all_xrefs)
          => \A d \in Docs : unit[d] \in {"done", "raised"}]_vars

\* C9 (amended): the index and the merged list change only in main's loop
\* over the completed futures, by the result of one unit that has itself
\* finished (other units may still be running), and one future is taken at
\* a time, only when it has finished or failed.
MergeOnlyFinishedUnits ==
    [][/\ \A d \in merged' \ merged :
             /\ pc = "collect"
             /\ unit[d] \in {"done", "raised"}
             /\ merged' = merged \cup {d}
       /\ (all_section_ids' # all_section_ids \/ all_xrefs' # all_xrefs) =>
             \E d \in merged' \ merged :
                 /\ unit[d] = "done"
                 /\ all_section_ids' =
                        MergeIds(all_section_ids, result[d].section_ids, d)
                 /\ all_xrefs' = all_xrefs \o result[d].xrefs]_vars

\* the index already holds the anchors of one document while the unit of
\* another one has not finished
StreamingMergeWitness ==
    /\ all_section_ids # <<>>
    /\ all_xrefs # <<>>
    /\ \E d \in Docs : unit[d] \in {"pending", "running"}
====
